---- MODULE Spec2Model ----
(***************************************************************************)
(* State-machine model of Renderer::RenderSystem                            *)
(* (source/engine/systems/render_system/render_system.cpp) together with    *)
(* the parts of Renderer::Scene and Renderer::Object it relies on.          *)
(*                                                                         *)
(* The constructor is modelled as the sequence of its calls (one action     *)
(* per call, the program counter pc naming the next call); after            *)
(* construction the frame loop may call updateSceneUniform, cullScene and   *)
(* drawScene.  Maps keyed by id (scene.models, scene.objects) are           *)
(* functions over 0..n-1; vectors are sequences (1-based, so element i of   *)
(* a C++ vector is element i+1 here).                                       *)
(***************************************************************************)
EXTENDS Integers, Sequences, FiniteSets, TLC

(* ------------------------------ bounds --------------------------------- *)
MaxModels == 2
MaxObjects == 2
MaxCalls == 2
MaxStructSize == 40
MaxAlignLog == 6
SizeBits == 16
MaxFramesInFlight == 3
MaxCreated == 4
MaxEdits == 1
MaxReruns == 2

(* ------------------------- program constants --------------------------- *)
MAX_FRAMES_IN_FLIGHT == 2
LocalGroupSize == 64
SizeofObjectInfo == 24
TextureCount == 2

NULL == [nullptr |-> TRUE]
NoBinding == "none"
GARBAGE == "garbage"

(* A loaded model, reduced to what the render system reads from it.        *)
ModelKinds ==
    { [vertexCount |-> 3, indexCount |-> 3],
      [vertexCount |-> 4, indexCount |-> 6],
      [vertexCount |-> 3, indexCount |-> 0] }

RECURSIVE Pow2(_)
Pow2(k) == IF k = 0 THEN 1 ELSE 2 * Pow2(k - 1)

(* minUniformBufferOffsetAlignment values a device reports: powers of two. *)
Alignments == { Pow2(k) : k \in 0..MaxAlignLog }

DeviceAlignments == { 64 }

VARIABLES
    pc,                         \* next constructor call / "ready" / "threw" / "crashed"
    minUboAlignment,            \* properties.limits.minUniformBufferOffsetAlignment
    structSize,                 \* argument of padUniformBufferSize
    framesInFlight,             \* SwapChain::MAX_FRAMES_IN_FLIGHT of the build
    models,                     \* scene.models      : id -> model
    objects,                    \* scene.objects     : id -> objectInfo
    otherObjects,               \* objects of a second Scene instance
    currentId,                  \* Object::createObject()::currentId
    vertices, indices,          \* merged vertex / index vectors
    totalVertexCount, totalIndexCount,
    globalVertexBuffer, globalIndexBuffer,
    indirectCommands, totalInstanceCount,
    indirectCommandsBuffers,
    objectInfoDynamicAlignment,
    objectInfoBuffers, sceneUniformBuffers,
    sceneUniform,               \* scene.sceneUniform
    sets,                       \* globalPool->getSets()
    frameIndex,                 \* the frame loop's current slot
    commandBuffer,              \* commands recorded for the current frame
    calls,                      \* cullScene / drawScene calls in the current frame
    edits,                      \* model reassignments since construction
    reruns                      \* runs of createDrawIndirectCommands since construction

sceneVars == <<models, objects, otherObjects, currentId>>
meshVars == <<vertices, indices, totalVertexCount, totalIndexCount,
              globalVertexBuffer, globalIndexBuffer>>
cmdVars == <<indirectCommands, totalInstanceCount, indirectCommandsBuffers>>
uboVars == <<objectInfoDynamicAlignment, objectInfoBuffers, sceneUniformBuffers,
             sceneUniform>>
frameVars == <<frameIndex, commandBuffer, calls>>
rebuildVars == <<edits, reruns>>
devVars == <<minUboAlignment, structSize, framesInFlight>>

FrameSlots == 0..(framesInFlight - 1)

vars == <<pc, devVars, sceneVars, meshVars, cmdVars, uboVars, sets, frameVars,
          rebuildVars>>

NumModels == Cardinality(DOMAIN models)
NumObjects == Cardinality(DOMAIN objects)

(* ---------------------------- bit arithmetic --------------------------- *)
RECURSIVE BitAnd(_, _)
BitAnd(x, y) ==
    IF x = 0 \/ y = 0 THEN 0
    ELSE (x % 2) * (y % 2) + 2 * BitAnd(x \div 2, y \div 2)

(* ~x on an unsigned integer of SizeBits bits *)
BitNot(x) == (Pow2(SizeBits) - 1) - x

(* RenderSystem::padUniformBufferSize *)
padUniformBufferSize_NoMinusOne(originalSize) ==
    IF minUboAlignment > 0
    THEN BitAnd((originalSize + minUboAlignment) % Pow2(SizeBits),
                BitNot(minUboAlignment - 1))
    ELSE originalSize

padUniformBufferSize(originalSize) ==
    IF minUboAlignment > 0
    THEN BitAnd((originalSize + minUboAlignment - 1) % Pow2(SizeBits),
                BitNot(minUboAlignment - 1))
    ELSE originalSize

(* ------------------------------- Init ---------------------------------- *)
EmptyState ==
    /\ models = <<>>
    /\ objects = <<>>
    /\ otherObjects = <<>>
    /\ currentId = 0
    /\ vertices = <<>>
    /\ indices = <<>>
    /\ totalVertexCount = 0
    /\ totalIndexCount = 0
    /\ globalVertexBuffer = NULL
    /\ globalIndexBuffer = NULL
    /\ indirectCommands = <<>>
    /\ totalInstanceCount = 0
    /\ indirectCommandsBuffers = <<>>
    /\ objectInfoDynamicAlignment = 0
    /\ objectInfoBuffers = <<>>
    /\ sceneUniformBuffers = <<>>
    /\ sceneUniform = [camera |-> FALSE, instanceCount |-> 0,
                       enableOcclusionCulling |-> FALSE]
    /\ sets = <<>>
    /\ frameIndex = 0
    /\ commandBuffer = <<>>
    /\ calls = 0
    /\ edits = 0
    /\ reruns = 0

Init ==
    /\ pc = "setupScene"
    /\ minUboAlignment \in DeviceAlignments
    /\ structSize = SizeofObjectInfo
    /\ framesInFlight = MAX_FRAMES_IN_FLIGHT
    /\ EmptyState

(* ----------------------------- setupScene ------------------------------ *)
(* Scene::loadModels: models[model->getId()] = model                        *)
LoadModel(kind) ==
    /\ pc = "setupScene"
    /\ NumObjects = 0
    /\ NumModels < MaxModels
    /\ models' = [i \in 0..NumModels |-> IF i < NumModels THEN models[i] ELSE kind]
    /\ UNCHANGED <<pc, devVars, rebuildVars,
                   objects, otherObjects, currentId, meshVars, cmdVars,
                   uboVars, sets, frameVars>>

(* Scene::createObject followed by the assignment of its model and texture *)
CreateObject(modelId, diffuseId) ==
    /\ pc = "setupScene"
    /\ NumObjects < MaxObjects
    /\ objects' = [i \in DOMAIN objects \cup {currentId} |->
                     IF i = currentId
                     THEN [modelId |-> modelId, diffuseId |-> diffuseId]
                     ELSE objects[i]]
    /\ currentId' = currentId + 1
    /\ UNCHANGED <<pc, devVars, rebuildVars,
                   models, otherObjects, meshVars, cmdVars, uboVars,
                   sets, frameVars>>

SetupSceneDone ==
    /\ pc = "setupScene"
    /\ pc' = "createVertexBuffer"
    /\ UNCHANGED <<devVars, rebuildVars,
                   sceneVars, meshVars, cmdVars, uboVars, sets, frameVars>>

(* ------------------- createVertexBuffer / createIndexBuffer ------------ *)
(* vertices of models 0..n-1, concatenated in loop order; every element is  *)
(* tagged with the model it was copied from and its position in that model  *)
RECURSIVE MergeVertices(_)
MergeVertices(n) ==
    IF n = 0 THEN <<>>
    ELSE MergeVertices(n - 1) \o
         [k \in 1..models[n - 1].vertexCount |-> [model |-> n - 1, k |-> k - 1]]

RECURSIVE SumVertexCount(_)
SumVertexCount(n) ==
    IF n = 0 THEN 0 ELSE SumVertexCount(n - 1) + models[n - 1].vertexCount

(* a model with getIndexCount() == 0 is skipped by the `continue` *)
RECURSIVE MergeIndices(_)
MergeIndices(n) ==
    IF n = 0 THEN <<>>
    ELSE IF models[n - 1].indexCount = 0 THEN MergeIndices(n - 1)
    ELSE MergeIndices(n - 1) \o
         [k \in 1..models[n - 1].indexCount |-> [model |-> n - 1, k |-> k - 1]]

RECURSIVE SumIndexCount(_)
SumIndexCount(n) ==
    IF n = 0 THEN 0 ELSE SumIndexCount(n - 1) + models[n - 1].indexCount

CreateVertexBuffer ==
    /\ pc = "createVertexBuffer"
    /\ vertices' = vertices \o MergeVertices(NumModels)
    /\ totalVertexCount' = totalVertexCount + SumVertexCount(NumModels)
    /\ globalVertexBuffer' =
         IF totalVertexCount' = 0 THEN globalVertexBuffer
         ELSE [instanceCount |-> totalVertexCount', data |-> vertices']
    /\ pc' = "createIndexBuffer"
    /\ UNCHANGED <<devVars, rebuildVars,
                   sceneVars, indices, totalIndexCount, globalIndexBuffer,
                   cmdVars, uboVars, sets, frameVars>>

CreateIndexBuffer ==
    /\ pc = "createIndexBuffer"
    /\ indices' = indices \o MergeIndices(NumModels)
    /\ totalIndexCount' = totalIndexCount + SumIndexCount(NumModels)
    /\ globalIndexBuffer' =
         IF totalIndexCount' = 0 THEN globalIndexBuffer
         ELSE [instanceCount |-> totalIndexCount', data |-> indices']
    /\ pc' = "createDrawIndirectCommands"
    /\ UNCHANGED <<devVars, rebuildVars,
                   sceneVars, vertices, totalVertexCount, globalVertexBuffer,
                   cmdVars, uboVars, sets, frameVars>>

(* ---------------------- createDrawIndirectCommands --------------------- *)
(* inner loop: number of objects j < objects.size() whose modelId is the    *)
(* id of model i                                                            *)
RECURSIVE CountInstancesFrom(_, _)
CountInstancesFrom(i, j) ==
    IF j >= NumObjects THEN 0
    ELSE (IF objects[j].modelId = i THEN 1 ELSE 0) + CountInstancesFrom(i, j + 1)

CountInstances_SkipFirst(i) == CountInstancesFrom(i, 1)

CountInstances(i) == CountInstancesFrom(i, 0)

(* scene.objects.at(i) or scene.models.at(modelId) throws std::out_of_range *)
IterationThrows(i) ==
    \/ i \notin DOMAIN objects
    \/ objects[i].modelId \notin DOMAIN models

(* the command pushed by iteration i of the outer loop *)
NewIndexedIndirectCommand(i) ==
    [ firstIndex    |-> 0,
      instanceCount |-> CountInstances(i),
      firstInstance |-> i,
      vertexOffset  |-> 0,
      indexCount    |-> models[objects[i].modelId].indexCount ]

(* number of iterations of the outer loop that complete *)
RECURSIVE CompletedIterations(_)
CompletedIterations(i) ==
    IF i >= NumModels \/ IterationThrows(i) THEN i ELSE CompletedIterations(i + 1)

RECURSIVE SumInstanceCount(_, _)
SumInstanceCount(cmds, n) ==
    IF n = 0 THEN 0 ELSE SumInstanceCount(cmds, n - 1) + cmds[n].instanceCount

(* indirectCommands.clear() *)
ClearCommands_Keep(cmds) == cmds

ClearCommands(cmds) == <<>>

(* the body of createDrawIndirectCommands; returnTo is where the caller     *)
(* goes on when it returns                                                  *)
RunCreateDrawIndirectCommands(returnTo) ==
    LET done == CompletedIterations(0)
        pushed == [c \in 1..done |-> NewIndexedIndirectCommand(c - 1)]
        cmds == ClearCommands(indirectCommands) \o pushed
    IN /\ indirectCommands' = cmds
       /\ totalInstanceCount' = 0 + SumInstanceCount(pushed, done)
       /\ IF done < NumModels
          THEN /\ pc' = "threw"
               /\ UNCHANGED indirectCommandsBuffers
          ELSE /\ pc' = returnTo
               /\ indirectCommandsBuffers' =
                    [f \in 1..framesInFlight |->
                       [instanceCount |-> 1, data |-> cmds]]

CreateDrawIndirectCommands ==
    /\ pc = "createDrawIndirectCommands"
    /\ RunCreateDrawIndirectCommands("createUniformBuffers")
    /\ UNCHANGED <<devVars, rebuildVars,
                   sceneVars, meshVars, uboVars, sets, frameVars>>

(* -------------------------- createUniformBuffers ----------------------- *)
CreateUniformBuffers ==
    /\ pc = "createUniformBuffers"
    /\ objectInfoDynamicAlignment' = padUniformBufferSize(structSize)
    /\ objectInfoBuffers' =
         [f \in 1..framesInFlight |->
            [bufferSize |-> objectInfoDynamicAlignment' * NumObjects, data |-> <<>>]]
    /\ sceneUniformBuffers' =
         [f \in 1..framesInFlight |-> [data |-> NULL]]
    /\ pc' = "setupDescriptorSets"
    /\ UNCHANGED <<devVars, rebuildVars,
                   sceneVars, meshVars, cmdVars, sceneUniform, sets, frameVars>>

(* --------------------------- setupDescriptorSets ----------------------- *)
(* DescriptorPool::addNewSets(layout, writes, count): count sets of the     *)
(* layout, each updated with the same writes                                *)
addNewSets(pool, layout, writes, count) ==
    pool \o [k \in 1..count |-> [layout |-> layout, writes |-> writes]]

(* a VkDescriptorBufferInfo / VkBuffer: which vector the buffer lives in    *)
(* and its index there                                                      *)
BufferRef(name, slot) == [buffer |-> name, slot |-> slot]

SetupDescriptorSets ==
    /\ pc = "setupDescriptorSets"
    /\ LET sceneUniformBufferInfo == BufferRef("sceneUniformBuffers", 0)
           indirectCommandsBufferInfo == BufferRef("indirectCommandsBuffers", 0)
           objectBufferInfo == BufferRef("objectInfoBuffers", 0)
           renderLayoutWrites == [sceneUniform |-> sceneUniformBufferInfo,
                                  objectInfo |-> objectBufferInfo,
                                  indirectCommands |-> BufferRef(NoBinding, 0)]
           cullLayoutWrites == [sceneUniform |-> sceneUniformBufferInfo,
                                objectInfo |-> objectBufferInfo,
                                indirectCommands |-> indirectCommandsBufferInfo]
       IN sets' = addNewSets(addNewSets(<<>>, "render", renderLayoutWrites, 2),
                             "cull", cullLayoutWrites, 2)
    /\ pc' = "createPipelines"
    /\ UNCHANGED <<devVars, rebuildVars,
                   sceneVars, meshVars, cmdVars, uboVars, frameVars>>

(* createComputePipelineLayout .. createGraphicsPipeline: end of constructor *)
CreatePipelines ==
    /\ pc = "createPipelines"
    /\ pc' = "ready"
    /\ UNCHANGED <<devVars, rebuildVars,
                   sceneVars, meshVars, cmdVars, uboVars, sets, frameVars>>

(* ---------------------------- updateSceneUniform ----------------------- *)
(* the record written for object i                                          *)
ObjectInfoRecord(i) ==
    [ diffuseId |-> i,          \* obj.getId()
      modelId   |-> i,          \* obj.getId()
      matrixOf  |-> i ]         \* model / normal matrix of object i's transform

ObjectInfoOffset_NextSlot(i) == objectInfoDynamicAlignment * (i + 1)

ObjectInfoOffset(i) == objectInfoDynamicAlignment * i

(* projection, view, inverseView, enableFrustumCulling and viewBoundingBox   *)
(* are copied from the camera: the field camera says that they have been    *)
UpdateSceneUniform ==
    /\ pc = "ready"
    /\ sceneUniform' = [camera |-> TRUE,
                        instanceCount |-> totalInstanceCount,
                        enableOcclusionCulling |-> FALSE]
    /\ sceneUniformBuffers' =
         [sceneUniformBuffers EXCEPT ![frameIndex + 1].data = sceneUniform']
    /\ objectInfoBuffers' =
         [objectInfoBuffers EXCEPT ![frameIndex + 1].data =
            [off \in DOMAIN @ \cup { ObjectInfoOffset(i) : i \in 0..(NumObjects - 1) } |->
               IF \E i \in 0..(NumObjects - 1) : off = ObjectInfoOffset(i)
               THEN ObjectInfoRecord(CHOOSE i \in 0..(NumObjects - 1) :
                                        off = ObjectInfoOffset(i))
               ELSE @[off]]]
    /\ UNCHANGED <<pc, devVars, rebuildVars, sceneVars, meshVars, cmdVars,
                   objectInfoDynamicAlignment, sets, frameVars>>

(* ------------------------------- cullScene ----------------------------- *)
RenderSetIndex(f) == f
CullSetIndex(f) == (f + framesInFlight) * 1

DispatchGroupCount(workloadSize) == workloadSize \div LocalGroupSize

(* globalPool->getSets()[setIndex]: operator[] past the end of the vector   *)
(* is undefined, the call either crashes or goes on with whatever it read   *)
GarbageSet ==
    [layout |-> GARBAGE,
     writes |-> [sceneUniform |-> BufferRef(GARBAGE, 0),
                 objectInfo |-> BufferRef(GARBAGE, 0),
                 indirectCommands |-> BufferRef(GARBAGE, 0)]]

SetAt(setIndex) == IF setIndex < Len(sets) THEN sets[setIndex + 1] ELSE GarbageSet

CullScene(outcome) ==
    /\ pc = "ready"
    /\ calls < MaxCalls
    /\ LET setIndex == CullSetIndex(frameIndex)
           head == << [op |-> "vkCmdBindPipeline", pipeline |-> "cullPipeline"] >>
           tail == << [op |-> "vkCmdBindDescriptorSets", bindPoint |-> "compute",
                       setIndex |-> setIndex, set |-> SetAt(setIndex)],
                      [op |-> "vkCmdDispatch",
                       groupCountX |-> DispatchGroupCount(Len(indirectCommands))] >>
       IN /\ outcome \in (IF setIndex < Len(sets) THEN {"ok"} ELSE {"crash", GARBAGE})
          /\ IF outcome = "crash"
             THEN /\ pc' = "crashed"
                  /\ commandBuffer' = commandBuffer \o head
             ELSE /\ pc' = pc
                  /\ commandBuffer' = commandBuffer \o head \o tail
    /\ calls' = calls + 1
    /\ UNCHANGED <<devVars, rebuildVars,
                   sceneVars, meshVars, cmdVars, uboVars, sets, frameIndex>>

(* ------------------------------- drawScene ----------------------------- *)
(* unique_ptr::operator-> on an empty pointer is undefined: the call either *)
(* crashes or goes on with whatever handle the read produced                *)
DrawScene(outcome) ==
    /\ pc = "ready"
    /\ calls < MaxCalls
    /\ outcome \in (IF \/ globalVertexBuffer = NULL
                       \/ globalIndexBuffer = NULL
                       \/ RenderSetIndex(frameIndex) >= Len(sets)
                    THEN {"crash", GARBAGE} ELSE {"ok"})
    /\ LET vertexBuffer == IF globalVertexBuffer = NULL
                           THEN BufferRef(GARBAGE, 0)
                           ELSE BufferRef("globalVertexBuffer", 0)
           indexBuffer == IF globalIndexBuffer = NULL
                          THEN BufferRef(GARBAGE, 0)
                          ELSE BufferRef("globalIndexBuffer", 0)
           head == << [op |-> "vkCmdBindPipeline", pipeline |-> "renderPipeline"],
                      [op |-> "vkCmdBindDescriptorSets", bindPoint |-> "graphics",
                       setIndex |-> RenderSetIndex(frameIndex),
                       set |-> SetAt(RenderSetIndex(frameIndex))] >>
           tail == << [op |-> "vkCmdBindVertexBuffers", binding |-> 0,
                       buffer |-> vertexBuffer],
                      [op |-> "vkCmdBindVertexBuffers", binding |-> 1,
                       buffer |-> BufferRef("objectInfoBuffers", frameIndex)],
                      [op |-> "vkCmdBindIndexBuffer", buffer |-> indexBuffer],
                      [op |-> "vkCmdDrawIndexedIndirect",
                       buffer |-> BufferRef("indirectCommandsBuffers", frameIndex),
                       drawCount |-> Len(indirectCommands)] >>
       IN IF outcome = "crash"
          THEN /\ pc' = "crashed"
               /\ commandBuffer' = commandBuffer \o head
          ELSE /\ pc' = pc
               /\ commandBuffer' = commandBuffer \o head \o tail
    /\ calls' = calls + 1
    /\ UNCHANGED <<devVars, rebuildVars,
                   sceneVars, meshVars, cmdVars, uboVars, sets, frameIndex>>

(* ------------------------------ frame loop ----------------------------- *)
(* the caller moves on to the next frame slot with a fresh command buffer  *)
EndFrame ==
    /\ pc = "ready"
    /\ frameIndex' = (frameIndex + 1) % framesInFlight
    /\ commandBuffer' = <<>>
    /\ calls' = 0
    /\ UNCHANGED <<pc, devVars, rebuildVars,
                   sceneVars, meshVars, cmdVars, uboVars, sets>>

(* ------------------------------ specification -------------------------- *)
Next ==
    \/ \E kind \in ModelKinds : LoadModel(kind)
    \/ \E modelId \in DOMAIN models, diffuseId \in 0..(TextureCount - 1) :
          CreateObject(modelId, diffuseId)
    \/ SetupSceneDone
    \/ CreateVertexBuffer
    \/ CreateIndexBuffer
    \/ CreateDrawIndirectCommands
    \/ CreateUniformBuffers
    \/ SetupDescriptorSets
    \/ CreatePipelines
    \/ UpdateSceneUniform
    \/ \E outcome \in {"ok", "crash", GARBAGE} : CullScene(outcome)
    \/ \E outcome \in {"ok", "crash", GARBAGE} : DrawScene(outcome)
    \/ EndFrame

Spec == Init /\ [][Next]_vars

(* ------------- the same program built with other frame counts ---------- *)
InitFrames ==
    /\ pc = "setupScene"
    /\ minUboAlignment \in DeviceAlignments
    /\ structSize = SizeofObjectInfo
    /\ framesInFlight \in MAX_FRAMES_IN_FLIGHT..MaxFramesInFlight
    /\ EmptyState

SpecFrames == InitFrames /\ [][Next]_vars

(* ------ model membership edited and the commands rebuilt afterwards ---- *)
(* objectInfo.modelId of an existing object is assigned another loaded     *)
(* model                                                                    *)
ReassignModel(object, modelId) ==
    /\ pc = "ready"
    /\ edits < MaxEdits
    /\ object \in DOMAIN objects
    /\ modelId \in DOMAIN models
    /\ modelId # objects[object].modelId
    /\ objects' = [objects EXCEPT ![object].modelId = modelId]
    /\ edits' = edits + 1
    /\ UNCHANGED <<pc, devVars, models, otherObjects, currentId, meshVars, cmdVars,
                   uboVars, sets, frameVars, reruns>>

RerunCreateDrawIndirectCommands ==
    /\ pc = "ready"
    /\ reruns < MaxReruns
    /\ RunCreateDrawIndirectCommands("ready")
    /\ reruns' = reruns + 1
    /\ UNCHANGED <<devVars, sceneVars, meshVars, uboVars, sets, frameVars, edits>>

NextRebuild ==
    \/ \E kind \in ModelKinds : LoadModel(kind)
    \/ \E modelId \in DOMAIN models, diffuseId \in 0..(TextureCount - 1) :
          CreateObject(modelId, diffuseId)
    \/ SetupSceneDone
    \/ CreateVertexBuffer
    \/ CreateIndexBuffer
    \/ CreateDrawIndirectCommands
    \/ CreateUniformBuffers
    \/ SetupDescriptorSets
    \/ CreatePipelines
    \/ \E object \in DOMAIN objects, modelId \in DOMAIN models :
          ReassignModel(object, modelId)
    \/ RerunCreateDrawIndirectCommands

SpecRebuild == Init /\ [][NextRebuild]_vars

(* --------------- padUniformBufferSize over all its inputs -------------- *)
InitPad ==
    /\ pc = "padUniformBufferSize"
    /\ minUboAlignment \in Alignments
    /\ structSize \in 0..MaxStructSize
    /\ framesInFlight = MAX_FRAMES_IN_FLIGHT
    /\ EmptyState

PadCall ==
    /\ pc = "padUniformBufferSize"
    /\ objectInfoDynamicAlignment' = padUniformBufferSize(structSize)
    /\ pc' = "padded"
    /\ UNCHANGED <<devVars, rebuildVars,
                   sceneVars, meshVars, cmdVars, objectInfoBuffers,
                   sceneUniformBuffers, sceneUniform, sets, frameVars>>

NextPad == PadCall

SpecPad == InitPad /\ [][NextPad]_vars

(* ------------- Scene::createObject on several Scene instances ---------- *)
(* Object::createObject: `return Object{currentId++}` on the function's    *)
(* static counter (an unsigned int; the guard of SceneCreateObject keeps    *)
(* it far below the value where it wraps)                                   *)
NextObjectId_Same(id) == id

NextObjectId(id) == id + 1

(* std::unordered_map::emplace: inserts unless the key is already present  *)
emplace(map, id, object) ==
    IF id \in DOMAIN map THEN map
    ELSE [i \in DOMAIN map \cup {id} |-> IF i = id THEN object ELSE map[i]]

(* objectInfo has no initialiser: its fields hold whatever was in memory   *)
IndeterminateIds == 0..1

InitScenes ==
    /\ pc = "scenes"
    /\ minUboAlignment \in DeviceAlignments
    /\ structSize = SizeofObjectInfo
    /\ framesInFlight = MAX_FRAMES_IN_FLIGHT
    /\ EmptyState

SceneCreateObject(which, modelId, diffuseId) ==
    /\ pc = "scenes"
    /\ currentId < MaxCreated
    /\ LET newObject == [modelId |-> modelId, diffuseId |-> diffuseId]
       IN IF which = "scene"
          THEN /\ objects' = emplace(objects, currentId, newObject)
               /\ UNCHANGED otherObjects
          ELSE /\ otherObjects' = emplace(otherObjects, currentId, newObject)
               /\ UNCHANGED objects
    /\ currentId' = NextObjectId(currentId)
    /\ UNCHANGED <<pc, devVars, rebuildVars,
                   models, meshVars, cmdVars, uboVars, sets, frameVars>>

NextScenes ==
    \E which \in {"scene", "other"}, modelId \in IndeterminateIds,
       diffuseId \in IndeterminateIds :
          SceneCreateObject(which, modelId, diffuseId)

SpecScenes == InitScenes /\ [][NextScenes]_vars

(* =============================== claims ================================ *)
(* createDrawIndirectCommands has returned (it did not throw) *)
CommandsBuilt ==
    pc \in {"createUniformBuffers", "setupDescriptorSets", "createPipelines",
            "ready", "crashed"}

CommandIndices == 1..Len(indirectCommands)

IsOp(k, op) == commandBuffer[k].op = op

(* C1: once createDrawIndirectCommands has returned on a scene with at      *)
(* least one object, the instanceCount values of indirectCommands add up    *)
(* to the number of objects, and so does totalInstanceCount.                *)
C1_InstanceSumIsObjectCount ==
    (CommandsBuilt /\ NumObjects >= 1) =>
        /\ SumInstanceCount(indirectCommands, Len(indirectCommands)) = NumObjects
        /\ totalInstanceCount = NumObjects

C1_Witness ==
    /\ CommandsBuilt
    /\ NumObjects >= 2
    /\ NumModels >= 2
    /\ \A c \in CommandIndices : indirectCommands[c].instanceCount >= 1
    /\ totalInstanceCount = NumObjects

(* C2: every command's firstInstance is the sum of the instanceCount values *)
(* of the commands before it in indirectCommands.                           *)
C2_FirstInstanceIsRunningSum ==
    CommandsBuilt =>
        \A c \in CommandIndices :
            indirectCommands[c].firstInstance = SumInstanceCount(indirectCommands, c - 1)

(* C3: indirectCommands holds exactly one command per model that some       *)
(* object references, and no command with instanceCount 0.                  *)
C3_OneCommandPerReferencedModel ==
    CommandsBuilt =>
        /\ Len(indirectCommands) =
             Cardinality({ objects[j].modelId : j \in DOMAIN objects })
        /\ \A c \in CommandIndices : indirectCommands[c].instanceCount > 0

(* C4: the indexCount of the command at loop position i is the index count  *)
(* of model i, the model whose objects its instanceCount counts.            *)
C4_IndexCountIsOwnModels ==
    CommandsBuilt =>
        \A c \in CommandIndices :
            indirectCommands[c].indexCount = models[c - 1].indexCount

(* C5: in a slot updateSceneUniform has written, every instance slot k of   *)
(* every command c holds, at offset k * objectInfoDynamicAlignment, the     *)
(* record of an object whose model is c's model, and the record's modelId   *)
(* and diffuseId are that object's model id and texture id.                 *)
C5_RecordsFollowInstanceRanges ==
    \A f \in FrameSlots :
        (pc = "ready" /\ sceneUniformBuffers[f + 1].data # NULL) =>
            \A c \in CommandIndices :
                \A k \in indirectCommands[c].firstInstance ..
                         (indirectCommands[c].firstInstance
                            + indirectCommands[c].instanceCount - 1) :
                    LET data == objectInfoBuffers[f + 1].data
                        off == k * objectInfoDynamicAlignment
                    IN /\ off \in DOMAIN data
                       /\ objects[data[off].matrixOf].modelId = c - 1
                       /\ data[off].modelId = objects[data[off].matrixOf].modelId
                       /\ data[off].diffuseId = objects[data[off].matrixOf].diffuseId

(* C6: padUniformBufferSize returns ceil(size / minAlignment) *              *)
(* minAlignment: a multiple of the alignment, at least the size, and less   *)
(* than one alignment unit above it.                                        *)
C6_PadIsCeilMultiple ==
    pc = "padded" =>
        /\ objectInfoDynamicAlignment =
             ((structSize + minUboAlignment - 1) \div minUboAlignment) * minUboAlignment
        /\ objectInfoDynamicAlignment % minUboAlignment = 0
        /\ objectInfoDynamicAlignment >= structSize
        /\ objectInfoDynamicAlignment - structSize < minUboAlignment

C6_Witness ==
    /\ pc = "padded"
    /\ minUboAlignment > 1
    /\ structSize > minUboAlignment
    /\ structSize % minUboAlignment # 0
    /\ objectInfoDynamicAlignment > structSize

(* C7: every dispatch recorded by cullScene has ceil(workloadSize / 64)     *)
(* groups, so a workload of at least one element gets at least one group    *)
(* and the groups cover every element.                                      *)
C7_DispatchCoversWorkload ==
    \A k \in 1..Len(commandBuffer) :
        IsOp(k, "vkCmdDispatch") =>
            LET workloadSize == Len(indirectCommands)
                groups == commandBuffer[k].groupCountX
            IN /\ groups = (workloadSize + LocalGroupSize - 1) \div LocalGroupSize
               /\ (workloadSize >= 1 => groups >= 1)
               /\ groups * LocalGroupSize >= workloadSize

(* C8: in the commands of a frame, every indexed-indirect draw comes after  *)
(* a cull dispatch with a pipeline barrier recorded between the two, and a  *)
(* cull dispatch is only recorded for a slot whose uniform and instance     *)
(* data updateSceneUniform has written.                                     *)
C8_CullThenBarrierThenDraw ==
    /\ \A d \in 1..Len(commandBuffer) :
          IsOp(d, "vkCmdDrawIndexedIndirect") =>
              \E c \in 1..(d - 1) :
                  /\ IsOp(c, "vkCmdDispatch")
                  /\ \E b \in (c + 1)..(d - 1) : IsOp(b, "vkCmdPipelineBarrier")
    /\ \A c \in 1..Len(commandBuffer) :
          IsOp(c, "vkCmdDispatch") => sceneUniformBuffers[frameIndex + 1].data # NULL

(* C9: with a total instance, vertex or index count of zero, drawScene      *)
(* records no indexed-indirect draw, binds no buffer that was never         *)
(* created, and does not dereference one.                                   *)
C9_NoDrawWhenEmpty ==
    (totalInstanceCount = 0 \/ totalVertexCount = 0 \/ totalIndexCount = 0) =>
        /\ pc # "crashed"
        /\ \A k \in 1..Len(commandBuffer) :
              /\ ~IsOp(k, "vkCmdDrawIndexedIndirect")
              /\ (IsOp(k, "vkCmdBindVertexBuffers") \/ IsOp(k, "vkCmdBindIndexBuffer"))
                    => commandBuffer[k].buffer.buffer # GARBAGE

(* C10: the descriptor set drawScene or cullScene binds for frame slot f    *)
(* references slot f's uniform buffer and instance-data buffer, and the     *)
(* cull set slot f's indirect-command buffer.                               *)
C10_SetsReferenceOwnSlot ==
    \A k \in 1..Len(commandBuffer) :
        IsOp(k, "vkCmdBindDescriptorSets") =>
            LET writes == commandBuffer[k].set.writes
            IN /\ writes.sceneUniform = BufferRef("sceneUniformBuffers", frameIndex)
               /\ writes.objectInfo = BufferRef("objectInfoBuffers", frameIndex)
               /\ commandBuffer[k].bindPoint = "compute" =>
                     writes.indirectCommands =
                        BufferRef("indirectCommandsBuffers", frameIndex)

(* C15: createDrawIndirectCommands never ends in an out-of-range map        *)
(* lookup, whatever the numbers of loaded models and of objects.            *)
C15_NoOutOfRangeLookup ==
    pc # "threw"

(* C16: the indices [firstIndex, firstIndex + indexCount) a command reads   *)
(* from the merged index vector are the ones copied in for its own model,   *)
(* all of them, and with vertexOffset added the vertex numbers of that      *)
(* model address the vertices copied in for it.                             *)
C16_CommandAddressesOwnMesh ==
    CommandsBuilt =>
        \A c \in CommandIndices :
            LET cmd == indirectCommands[c]
                own == models[c - 1]
            IN /\ cmd.indexCount = own.indexCount
               /\ \A k \in cmd.firstIndex .. (cmd.firstIndex + cmd.indexCount - 1) :
                     /\ k + 1 \in DOMAIN indices
                     /\ indices[k + 1] = [model |-> c - 1, k |-> k - cmd.firstIndex]
               /\ \A v \in 0 .. (own.vertexCount - 1) :
                     /\ cmd.vertexOffset + v + 1 \in DOMAIN vertices
                     /\ vertices[cmd.vertexOffset + v + 1] = [model |-> c - 1, k |-> v]

(* C12: a call of updateSceneUniform for slot frameIndex changes, among the *)
(* buffers, only that slot's uniform buffer and instance-data buffer; the   *)
(* other slots' buffers, the indirect-command buffers, the merged vertex    *)
(* and index buffers, indirectCommands and totalInstanceCount stay as they  *)
(* were, and object i's record lies at byte offset                          *)
(* i * objectInfoDynamicAlignment, inside a buffer of                       *)
(* objectInfoDynamicAlignment * objectCount bytes.                          *)
C12_UpdateWritesOnlyItsSlot ==
    [][ UpdateSceneUniform =>
          /\ \A f \in FrameSlots \ {frameIndex} :
                /\ sceneUniformBuffers'[f + 1] = sceneUniformBuffers[f + 1]
                /\ objectInfoBuffers'[f + 1] = objectInfoBuffers[f + 1]
          /\ UNCHANGED <<indirectCommandsBuffers, globalVertexBuffer, globalIndexBuffer,
                         vertices, indices, indirectCommands, totalInstanceCount>>
          /\ sceneUniformBuffers'[frameIndex + 1].data # NULL
          /\ LET buf == objectInfoBuffers'[frameIndex + 1]
             IN /\ buf.bufferSize = objectInfoDynamicAlignment * NumObjects
                /\ DOMAIN buf.data =
                     { i * objectInfoDynamicAlignment : i \in DOMAIN objects }
                /\ \A i \in DOMAIN objects :
                      LET off == i * objectInfoDynamicAlignment
                      IN /\ buf.data[off].matrixOf = i
                         /\ off + objectInfoDynamicAlignment <= buf.bufferSize
      ]_vars

C12_Witness ==
    /\ pc = "ready"
    /\ NumObjects >= 2
    /\ sceneUniformBuffers[1].data = NULL
    /\ objectInfoBuffers[1].data = <<>>
    /\ sceneUniformBuffers[2].data # NULL
    /\ DOMAIN objectInfoBuffers[2].data = {0, objectInfoDynamicAlignment}

(* C11: setupDescriptorSets leaves 2 * MAX_FRAMES_IN_FLIGHT sets in the     *)
(* pool, and for every frame slot the set index drawScene uses selects a    *)
(* set of the render layout and the set index cullScene uses lies inside    *)
(* the pool's set list and selects a set of the cull layout, whatever the   *)
(* number of frames in flight.                                              *)
C11_SetIndicesSelectOwnLayout ==
    pc \in {"createPipelines", "ready", "crashed"} =>
        /\ Len(sets) = 2 * framesInFlight
        /\ \A f \in FrameSlots :
              /\ RenderSetIndex(f) < Len(sets)
              /\ sets[RenderSetIndex(f) + 1].layout = "render"
              /\ CullSetIndex(f) < Len(sets)
              /\ sets[CullSetIndex(f) + 1].layout = "cull"

(* C13: every Scene::createObject call, on whichever Scene, gets an id      *)
(* larger than every id handed out before and adds one entry under that id  *)
(* to its scene's object map; the entries that were there stay as they      *)
(* were, and no id is in use twice.                                         *)
C13_FreshIdsNothingLost ==
    [][ (currentId' # currentId \/ objects' # objects \/ otherObjects' # otherObjects) =>
          /\ currentId' > currentId
          /\ \A i \in DOMAIN objects \cup DOMAIN otherObjects : i < currentId
          /\ \A i \in DOMAIN objects :
                i \in DOMAIN objects' /\ objects'[i] = objects[i]
          /\ \A i \in DOMAIN otherObjects :
                i \in DOMAIN otherObjects' /\ otherObjects'[i] = otherObjects[i]
          /\ (DOMAIN objects' \cup DOMAIN otherObjects') =
                (DOMAIN objects \cup DOMAIN otherObjects) \cup {currentId}
          /\ DOMAIN objects' \cap DOMAIN otherObjects' = {}
          /\ Cardinality(DOMAIN objects') + Cardinality(DOMAIN otherObjects') =
                Cardinality(DOMAIN objects) + Cardinality(DOMAIN otherObjects) + 1
      ]_vars

C13_Witness ==
    /\ pc = "scenes"
    /\ DOMAIN objects = {0, 2}
    /\ DOMAIN otherObjects = {1, 3}
    /\ currentId = 4

(* the command list and the total that the current models and objects       *)
(* alone determine                                                          *)
FromCurrentScene(cmds, total) ==
    /\ Len(cmds) = NumModels
    /\ \A c \in 1..Len(cmds) :
          /\ cmds[c].instanceCount =
                Cardinality({ j \in DOMAIN objects : objects[j].modelId = c - 1 })
          /\ cmds[c].firstInstance = c - 1
          /\ cmds[c].indexCount = models[objects[c - 1].modelId].indexCount
          /\ cmds[c].firstIndex = 0
          /\ cmds[c].vertexOffset = 0
    /\ total = NumObjects

(* C14: a run of createDrawIndirectCommands on a constructed system leaves  *)
(* the command list and totalInstanceCount that the current models and      *)
(* objects determine, whatever the list and the count were before, and a    *)
(* run on a scene whose commands are already up to date changes neither.    *)
C14_RebuildDependsOnSceneOnly ==
    [][ RerunCreateDrawIndirectCommands =>
          /\ FromCurrentScene(indirectCommands', totalInstanceCount')
          /\ FromCurrentScene(indirectCommands, totalInstanceCount) =>
                UNCHANGED <<indirectCommands, totalInstanceCount>>
      ]_vars

C14_Witness ==
    /\ pc = "ready"
    /\ edits = 1
    /\ reruns = 2
    /\ NumModels >= 2
    /\ NumObjects >= 2
    /\ FromCurrentScene(indirectCommands, totalInstanceCount)

====
